---- MODULE Spec2Model ----
(***************************************************************************)
(* Repair engines for SAS Visual Analytics BIRD XML reports, the route     *)
(* that serves them and the component that calls it.                       *)
(*                                                                         *)
(*   XMLRepairTool.repairXML   src/src/lib/xml-repair.js                   *)
(*   fixXmlReport              src/unnamed/part_000                        *)
(*   POST                      src/src/app/api/repair-report/route.ts      *)
(*   RepairReportUpload        src/src/components/repair-report-upload.tsx *)
(*                                                                         *)
(* A string is a sequence of one-character strings.  A document is the     *)
(* sequence of its nodes in document order, each with its depth; an XML    *)
(* text is a sequence of tokens (open tag with attributes, text, close     *)
(* tag).  The field id of an element is its position in the input text:    *)
(* it stands for the identity of the element and is carried through        *)
(* serialization and parsing so that an element of the output can be       *)
(* traced to the element of the input it came from.                        *)
(***************************************************************************)
EXTENDS Integers, Sequences, FiniteSets, TLC

(***************************************************************************)
(* Characters and strings                                                  *)
(***************************************************************************)
Lower == {"a","b","c","d","e","f","g","h","i","j","k","l","m",
          "n","o","p","q","r","s","t","u","v","w","x","y","z"}

Upper == {"A","B","C","D","E","F","G","H","I","J","K","L","M",
          "N","O","P","Q","R","S","T","U","V","W","X","Y","Z"}

Digit == {"0","1","2","3","4","5","6","7","8","9"}

\* \s of the regular expressions
White == {" ", "\t", "\n", "\r"}

\* [A-Za-z0-9]
Alnum == Lower \cup Upper \cup Digit

\* [A-Za-z0-9#]
AlnumHash == Alnum \cup {"#"}

\* [a-fA-F0-9]
HexChar == Digit \cup {"a","b","c","d","e","f","A","B","C","D","E","F"}

Range(s) == {s[i] : i \in 1..Len(s)}

\* Set.add on an insertion-ordered set kept as a sequence
AddU(seq, x) == IF x \in Range(seq) THEN seq ELSE Append(seq, x)

RECURSIVE AddAllU(_, _)
AddAllU(seq, xs) ==
  IF xs = <<>> THEN seq ELSE AddAllU(AddU(seq, Head(xs)), Tail(xs))

\* the concatenation of the strings of ss
RECURSIVE Flatten(_)
Flatten(ss) ==
  IF ss = <<>> THEN <<>>
  ELSE IF Len(ss) = 1 THEN ss[1]
  ELSE LET h == Len(ss) \div 2 IN
       Flatten(SubSeq(ss, 1, h)) \o Flatten(SubSeq(ss, h + 1, Len(ss)))

\* s.substring(p - 1) truncated to n characters
Slice(s, p, n) == SubSeq(s, p, p + n - 1)

\* the string sub occurs in s at position p
StartsAt(s, p, sub) ==
  /\ p >= 1
  /\ p + Len(sub) - 1 <= Len(s)
  /\ Slice(s, p, Len(sub)) = sub

\* String.prototype.includes
Includes(s, sub) == \E p \in 1..(Len(s) + 1) : StartsAt(s, p, sub)

\* String.prototype.startsWith
StartsWith(s, sub) == StartsAt(s, 1, sub)

RECURSIVE TrimLeft(_)
TrimLeft(s) ==
  IF s # <<>> /\ Head(s) \in White THEN TrimLeft(Tail(s)) ELSE s

RECURSIVE TrimRight(_)
TrimRight(s) ==
  IF s # <<>> /\ s[Len(s)] \in White
  THEN TrimRight(SubSeq(s, 1, Len(s) - 1)) ELSE s

\* String.prototype.trim
Trim(s) == TrimRight(TrimLeft(s))

\* number of characters of s from position p on that belong to class
RECURSIVE RunLen(_, _, _)
RunLen(s, p, class) ==
  IF p <= Len(s) /\ s[p] \in class THEN 1 + RunLen(s, p + 1, class) ELSE 0

\* /^[a-z]{2}[0-9]+$/
idCheck(s) ==
  /\ Len(s) >= 3
  /\ s[1] \in Lower
  /\ s[2] \in Lower
  /\ \A i \in 3..Len(s) : s[i] \in Digit

\* String.prototype.split(/\s+/): the words between runs of white space,
\* an empty word where the string begins or ends with white space
RECURSIVE SplitFrom(_, _, _, _)
SplitFrom(s, p, cur, acc) ==
  IF p > Len(s) THEN Append(acc, cur)
  ELSE IF s[p] \in White
       THEN SplitFrom(s, p + RunLen(s, p, White), <<>>, Append(acc, cur))
       ELSE SplitFrom(s, p + 1, Append(cur, s[p]), acc)

\* Variant of SplitWS: the value is taken as one word.
SplitNowhere(s) == <<s>>

SplitWS(s) == SplitFrom(s, 1, <<>>, <<>>)

\* length of the match of /[a-z]{2}[0-9]+/ that starts at p, 0 if none
IdMatchLen(s, p) ==
  IF /\ p + 2 <= Len(s)
     /\ s[p] \in Lower
     /\ s[p + 1] \in Lower
     /\ s[p + 2] \in Digit
  THEN 2 + RunLen(s, p + 2, Digit)
  ELSE 0

\* the character before position p is absent or outside class
BeforeOk(s, p, class) == p = 1 \/ s[p - 1] \notin class

\* the character at position p is absent or outside class
AfterOk(s, p, class) == p > Len(s) \/ s[p] \notin class

\* the exec loop over /[a-z]{2}[0-9]+/g of analyzeXML: the matches, left to
\* right, whose neighbours are both absent or outside [A-Za-z0-9#]
RECURSIVE ScanTextFrom(_, _, _)
ScanTextFrom(s, p, acc) ==
  LET found == {q \in p..Len(s) : IdMatchLen(s, q) > 0} IN
  IF found = {} THEN acc
  ELSE LET q == CHOOSE x \in found : \A y \in found : x <= y
           n == IdMatchLen(s, q)
       IN  ScanTextFrom(s, q + n,
             IF BeforeOk(s, q, AlnumHash) /\ AfterOk(s, q + n, AlnumHash)
             THEN Append(acc, Slice(s, q, n)) ELSE acc)

ScanText(s) == ScanTextFrom(s, 1, <<>>)

(***************************************************************************)
(* String rewriting of removeNullCandidateReferences                       *)
(***************************************************************************)
\* String.prototype.replace with a global pattern: lens[p] is the length of
\* the pattern's match starting at p (0 for none); matches are taken left
\* to right on the original string and do not overlap: the search for
\* the next match starts where the last match ended
RECURSIVE ReplaceWalk(_, _, _, _, _)
ReplaceWalk(s, p, lens, repl, acc) ==
  LET found == {q \in p..Len(s) : lens[q] > 0} IN
  IF found = {} THEN acc \o SubSeq(s, p, Len(s))
  ELSE LET q == CHOOSE x \in found : \A y \in found : x <= y IN
       ReplaceWalk(s, q + lens[q], lens, repl, acc \o SubSeq(s, p, q - 1) \o repl)

ReplaceAll(s, lens, repl) == ReplaceWalk(s, 1, lens, repl, <<>>)

\* \$\{nc(?:,[^}]*)?\}   (escapeRegExp leaves nc as it is: a candidate
\* passed idCheck and holds letters and digits only)
Pattern1Len(s, p, nc) ==
  LET q == p + 2 + Len(nc)
      r == q + 1 + RunLen(s, q + 1, (Range(s) \ {"}"}))
  IN IF ~StartsAt(s, p, <<"$", "{">> \o nc) \/ q > Len(s) THEN 0
     ELSE IF s[q] = "}" THEN q - p + 1
     ELSE IF s[q] = "," /\ r <= Len(s) THEN r - p + 1
     ELSE 0

\* (?<![A-Za-z0-9#])nc(?![A-Za-z0-9])
Pattern2Len(s, p, nc) ==
  IF /\ StartsAt(s, p, nc)
     /\ BeforeOk(s, p, AlnumHash)
     /\ AfterOk(s, p + Len(nc), Alnum)
  THEN Len(nc) ELSE 0

\* /\s+/g
SpacesLen(s, p) == RunLen(s, p, White)

\* open \s* close, for /,\s*,/g and /\(\s*\)/g
PairLen(s, p, open, close) ==
  LET w == RunLen(s, p + 1, White) IN
  IF s[p] = open /\ p + 1 + w <= Len(s) /\ s[p + 1 + w] = close
  THEN w + 2 ELSE 0

\* the body of the loop of removeNullCandidateReferences for one candidate
removeOne(text, nc) ==
  LET t1 == ReplaceAll(text, [p \in 1..Len(text) |-> Pattern1Len(text, p, nc)], <<>>)
      t2 == ReplaceAll(t1, [p \in 1..Len(t1) |-> Pattern2Len(t1, p, nc)], <<>>)
      t3 == ReplaceAll(t2, [p \in 1..Len(t2) |-> SpacesLen(t2, p)], <<" ">>)
      t4 == ReplaceAll(t3, [p \in 1..Len(t3) |-> PairLen(t3, p, ",", ",")], <<",">>)
  IN  ReplaceAll(t4, [p \in 1..Len(t4) |-> PairLen(t4, p, "(", ")")], <<"(", ")">>)

RECURSIVE removeEach(_, _)
removeEach(text, ncs) ==
  IF ncs = <<>> THEN text ELSE removeEach(removeOne(text, Head(ncs)), Tail(ncs))

removeNullCandidateReferences(text, nullCandidates) ==
  IF text = <<>> THEN text ELSE Trim(removeEach(text, nullCandidates))

(***************************************************************************)
(* Documents                                                               *)
(***************************************************************************)
ElemNode(d, tag, attrs, id) ==
  [kind |-> "elem", depth |-> d, tag |-> tag, attrs |-> attrs,
   text |-> <<>>, id |-> id]

TextNode(d, s) ==
  [kind |-> "text", depth |-> d, tag |-> "", attrs |-> <<>>,
   text |-> s, id |-> 0]

Attr(n, v) == [name |-> n, value |-> v]

\* doc.getElementsByTagName('*'): the positions of the elements, in
\* document order, the root element included
ElemIdx(doc) == {i \in 1..Len(doc) : doc[i].kind = "elem"}

\* root.getElementsByTagName('*'): the descendants of the root element
DescIdx(doc) == {i \in ElemIdx(doc) : doc[i].depth > 0}

\* position of the last node of the subtree of node i
SubEnd(doc, i) ==
  LET later == {j \in (i + 1)..Len(doc) : doc[j].depth <= doc[i].depth}
  IN  IF later = {} THEN Len(doc)
      ELSE (CHOOSE j \in later : \A k \in later : j <= k) - 1

\* Node.textContent (getter): the text of all descendants, concatenated
textContent(doc, i) ==
  Flatten([j \in 1..(SubEnd(doc, i) - i) |->
             IF doc[i + j].kind = "text" THEN doc[i + j].text ELSE <<>>])

\* Node.textContent (setter): every child of the element is replaced by
\* one text node, or by nothing when the string is empty
SetTextContent(doc, i, s) ==
  SubSeq(doc, 1, i)
    \o (IF s = <<>> THEN <<>> ELSE <<TextNode(doc[i].depth + 1, s)>>)
    \o SubSeq(doc, SubEnd(doc, i) + 1, Len(doc))

\* parent.removeChild(elem): the element goes with its subtree
RemoveSubtree(doc, i) ==
  SubSeq(doc, 1, i - 1) \o SubSeq(doc, SubEnd(doc, i) + 1, Len(doc))

HasAttr(attrs, n) == \E k \in 1..Len(attrs) : attrs[k].name = n

\* Element.getAttribute, for an attribute that is present
AttrVal(attrs, n) == attrs[CHOOSE k \in 1..Len(attrs) : attrs[k].name = n].value

\* the test  name && ...  on the result of getAttribute('name')
HasName(node) == HasAttr(node.attrs, "name") /\ AttrVal(node.attrs, "name") # <<>>

NameOf(node) == AttrVal(node.attrs, "name")

\* Element.setAttribute: an attribute that is present keeps its place
SetAttr(attrs, n, v) ==
  IF HasAttr(attrs, n)
  THEN [k \in 1..Len(attrs) |-> IF attrs[k].name = n THEN Attr(n, v) ELSE attrs[k]]
  ELSE Append(attrs, Attr(n, v))

\* Element.removeAttribute
RemoveAttr(attrs, n) == SelectSeq(attrs, LAMBDA a : a.name # n)

\* position of the element with identity id, 0 when it left the document
PosOf(doc, id) ==
  IF \E i \in ElemIdx(doc) : doc[i].id = id
  THEN CHOOSE i \in ElemIdx(doc) : doc[i].id = id
  ELSE 0

\* the nodes selected by a set of positions, in document order
RECURSIVE SeqOfSet(_)
SeqOfSet(S) ==
  IF S = {} THEN <<>>
  ELSE LET m == CHOOSE x \in S : \A y \in S : x <= y
       IN  <<m>> \o SeqOfSet(S \ {m})

(***************************************************************************)
(* XMLSerializer.serializeToString and DOMParser.parseFromString           *)
(***************************************************************************)
OpenTok(tag, attrs, id) ==
  [t |-> "open", tag |-> tag, attrs |-> attrs, text |-> <<>>, id |-> id]

CloseTok(tag) ==
  [t |-> "close", tag |-> tag, attrs |-> <<>>, text |-> <<>>, id |-> 0]

TextTok(s) ==
  [t |-> "text", tag |-> "", attrs |-> <<>>, text |-> s, id |-> 0]

\* character data is written with & and < escaped
EscapeChar(c) ==
  IF c = "&" THEN <<"&", "a", "m", "p", ";">>
  ELSE IF c = "<" THEN <<"&", "l", "t", ";">>
  ELSE <<c>>

Escape(s) == Flatten([k \in 1..Len(s) |-> EscapeChar(s[k])])

\* the entity references &amp; and &lt; replaced by their characters; a
\* reference holds one & only, so no two references overlap
Unescape(s) ==
  LET amp    == <<"&", "a", "m", "p", ";">>
      lt     == <<"&", "l", "t", ";">>
      refs   == {q \in 1..Len(s) : s[q] = "&"}
      inside == {p \in 1..Len(s) :
                   \E q \in refs :
                     \/ q < p /\ p <= q + 4 /\ StartsAt(s, q, amp)
                     \/ q < p /\ p <= q + 3 /\ StartsAt(s, q, lt)}
  IN  IF refs = {} THEN s
      ELSE Flatten([p \in 1..Len(s) |->
                      IF p \in inside THEN <<>>
                      ELSE IF StartsAt(s, p, amp) THEN <<"&">>
                      ELSE IF StartsAt(s, p, lt) THEN <<"<">>
                      ELSE <<s[p]>>])

EscapeAttrs(attrs) ==
  [k \in 1..Len(attrs) |-> Attr(attrs[k].name, Escape(attrs[k].value))]

UnescapeAttrs(attrs) ==
  [k \in 1..Len(attrs) |-> Attr(attrs[k].name, Unescape(attrs[k].value))]

\* the tag of the element that is open at depth d - 1 after nodes acc
OpenTag(acc, d) ==
  LET c == {i \in ElemIdx(acc) : acc[i].depth = d - 1}
  IN  acc[CHOOSE i \in c : \A j \in c : j <= i].tag

\* the close tags of the elements open at depths from .. upto, innermost
\* first
RECURSIVE Closes(_, _, _)
Closes(acc, upto, from) ==
  IF upto < from THEN <<>>
  ELSE <<CloseTok(OpenTag(acc, upto + 1))>> \o Closes(acc, upto - 1, from)

RECURSIVE SerializeFrom(_, _, _, _)
SerializeFrom(doc, i, open, acc) ==
  IF i > Len(doc) THEN acc \o Closes(doc, open - 1, 0)
  ELSE LET n    == doc[i]
           shut == Closes(SubSeq(doc, 1, i - 1), open - 1, n.depth)
       IN  IF n.kind = "elem"
           THEN SerializeFrom(doc, i + 1, n.depth + 1,
                  acc \o shut \o <<OpenTok(n.tag, EscapeAttrs(n.attrs), n.id)>>)
           ELSE SerializeFrom(doc, i + 1, n.depth,
                  acc \o shut \o <<TextTok(Escape(n.text))>>)

serializeToString(doc) == SerializeFrom(doc, 1, 0, <<>>)

\* The parse of a token sequence: ok is FALSE for text that is not well
\* formed (a close tag that matches no open tag, an element left open, no
\* root element or more than one, text outside the root element).
\* Character data split over several tokens is one text node.
RECURSIVE ParseFrom(_, _, _, _)
ParseFrom(toks, i, d, acc) ==
  IF i > Len(toks)
  THEN [ok |-> d = 0 /\ acc # <<>>, doc |-> acc]
  ELSE LET k == toks[i] IN
       CASE k.t = "open" ->
              IF d = 0 /\ acc # <<>> THEN [ok |-> FALSE, doc |-> <<>>]
              ELSE ParseFrom(toks, i + 1, d + 1,
                     Append(acc, ElemNode(d, k.tag, UnescapeAttrs(k.attrs), k.id)))
         [] k.t = "close" ->
              IF d = 0 \/ OpenTag(acc, d) # k.tag THEN [ok |-> FALSE, doc |-> <<>>]
              ELSE ParseFrom(toks, i + 1, d - 1, acc)
         [] OTHER ->
              IF d = 0 THEN
                IF Trim(k.text) = <<>> THEN ParseFrom(toks, i + 1, d, acc)
                ELSE [ok |-> FALSE, doc |-> <<>>]
              ELSE IF k.text = <<>> THEN ParseFrom(toks, i + 1, d, acc)
              ELSE IF acc[Len(acc)].kind = "text" /\ acc[Len(acc)].depth = d
                     /\ toks[i - 1].t = "text"
              THEN ParseFrom(toks, i + 1, d,
                     [acc EXCEPT ![Len(acc)].text = @ \o Unescape(k.text)])
              ELSE ParseFrom(toks, i + 1, d, Append(acc, TextNode(d, Unescape(k.text))))

parseFromString(toks) == ParseFrom(toks, 1, 0, <<>>)

(***************************************************************************)
(* XMLRepairTool.analyzeXML                                                *)
(***************************************************************************)
ElemSeq(doc) == SeqOfSet(ElemIdx(doc))

\* String.prototype.toLowerCase
LowerOf(c) ==
  LET up == <<"A","B","C","D","E","F","G","H","I","J","K","L","M",
              "N","O","P","Q","R","S","T","U","V","W","X","Y","Z">>
      lo == <<"a","b","c","d","e","f","g","h","i","j","k","l","m",
              "n","o","p","q","r","s","t","u","v","w","x","y","z">>
  IN  IF c \in Upper THEN lo[CHOOSE k \in 1..26 : up[k] = c] ELSE c

toLowerCase(s) == [k \in 1..Len(s) |-> LowerOf(s[k])]

\* first pass: the name attributes that pass idCheck
definedIds(doc) ==
  {NameOf(doc[i]) : i \in {j \in ElemIdx(doc) : HasName(doc[j]) /\ idCheck(NameOf(doc[j]))}}

\* the words of the attributes other than name that pass idCheck
AttrRefs(attrs) ==
  Flatten([k \in 1..Len(attrs) |->
             IF attrs[k].name # "name"
             THEN SelectSeq(SplitWS(attrs[k].value), idCheck)
             ELSE <<>>])

\* the matches in elem.textContent.trim()
TextRefs(doc, i) ==
  IF Trim(textContent(doc, i)) # <<>> THEN ScanText(Trim(textContent(doc, i)))
  ELSE <<>>

\* second pass: referencedIds, in insertion order
referencedIds(doc) ==
  LET es == ElemSeq(doc) IN
  AddAllU(<<>>, Flatten([k \in 1..Len(es) |->
                           AttrRefs(doc[es[k]].attrs) \o TextRefs(doc, es[k])]))

\* /^[a-fA-F0-9]{6}$/
IsColorCode(s) == Len(s) = 6 /\ \A k \in 1..6 : s[k] \in HexChar

LabelWords ==
  { <<"l","a","b","e","l">>, <<"t","i","t","l","e">>, <<"n","a","m","e">>, <<"i","d">> }

\* Variant of IsFiltered: no candidate is filtered out.
NothingFiltered(c) == FALSE

\* the filter applied to the candidates
IsFiltered(c) ==
  \/ IsColorCode(c)
  \/ toLowerCase(c) \in LabelWords
  \/ c = <<"b", "i", "1">>

\* referenced but not defined, filtered; in insertion order
nullCandidateIds(doc) ==
  LET defd == definedIds(doc) IN
  SelectSeq(referencedIds(doc), LAMBDA id : id \notin defd /\ ~IsFiltered(id))

IsPromptName(node) ==
  /\ HasName(node)
  /\ StartsWith(NameOf(node), <<"p", "r">>)
  /\ idCheck(NameOf(node))

\* promptIds, in insertion order
promptIds(doc) ==
  LET es == ElemSeq(doc) IN
  AddAllU(<<>>, Flatten([k \in 1..Len(es) |->
                           IF IsPromptName(doc[es[k]])
                           THEN <<NameOf(doc[es[k]])>> ELSE <<>>]))

\* Variant of PromptReferenced: no prompt counts as referenced.
NeverReferenced(doc, pid) == FALSE

\* a prompt id is referenced when it is the whole value of an attribute
\* other than name, or occurs in the textContent of an element
PromptReferenced(doc, pid) ==
  \E i \in ElemIdx(doc) :
    \/ \E k \in 1..Len(doc[i].attrs) :
         doc[i].attrs[k].name # "name" /\ doc[i].attrs[k].value = pid
    \/ textContent(doc, i) # <<>> /\ Includes(textContent(doc, i), pid)

\* unusedPrompts, in insertion order
unusedPrompts(doc) ==
  SelectSeq(promptIds(doc), LAMBDA pid : ~PromptReferenced(doc, pid))

\* the names that findDuplicateObjects skips
legitimateNames ==
  { <<"C","A","T","E","G","O","R","Y">>, <<"R","E","S","P","O","N","S","E">>,
    <<"G","R","O","U","P">>, <<"C","O","L","U","M","N">>, <<"R","O","W">>,
    <<"T","I","P">>, <<"K","E","Y","_","F","R","A","M","E">>,
    <<"H","I","D","D","E","N">>, <<"X">>, <<"Y">> }

\* Variant of legitimateTags: no tag is allowed to share a name.
NoLegitimateTags == {}

\* the tags whose elements may share a name
legitimateTags == {"DynVar", "Category", "Property", "KeyValue", "HistogramParm"}

\* the elements that declare name, in document order
Declaring(doc, name) ==
  {i \in ElemIdx(doc) : HasName(doc[i]) /\ NameOf(doc[i]) = name}

\* XMLRepairTool.findDuplicateObjects: the names of the problematic groups
findDuplicateObjects(doc) ==
  LET names == {NameOf(doc[i]) : i \in {j \in ElemIdx(doc) : HasName(doc[j])}}
  IN  {n \in names :
         /\ Cardinality(Declaring(doc, n)) > 1
         /\ n \notin legitimateNames
         /\ \A t \in legitimateTags : \E i \in Declaring(doc, n) : doc[i].tag # t}

\* objectTypes: tag -> number of elements
objectTypes(doc) ==
  [t \in {doc[i].tag : i \in ElemIdx(doc)} |->
     Cardinality({i \in ElemIdx(doc) : doc[i].tag = t})]

analyzeXML(doc) ==
  [totalObjects     |-> Cardinality(ElemIdx(doc)),
   objectTypes      |-> objectTypes(doc),
   nullCandidates   |-> Len(nullCandidateIds(doc)),
   nullCandidateIds |-> nullCandidateIds(doc),
   prompts          |-> Len(unusedPrompts(doc)),
   duplicates       |-> Cardinality(findDuplicateObjects(doc))]

(***************************************************************************)
(* XMLRepairTool.repairNullCandidates                                      *)
(***************************************************************************)
SomeIncluded(s, ncs) == \E k \in 1..Len(ncs) : Includes(s, ncs[k])

\* Variant of CleanAttrs: an attribute whose cleaned value is empty is
\* kept, with the empty value.
RECURSIVE CleanAttrsKeepEmpty(_, _, _)
CleanAttrsKeepEmpty(attrs, k, ncs) ==
  IF k > Len(attrs) THEN attrs
  ELSE LET a       == attrs[k]
           cleaned == removeNullCandidateReferences(a.value, ncs)
       IN  IF a.name # "name" /\ a.value # <<>> /\ SomeIncluded(a.value, ncs)
              /\ cleaned # a.value
           THEN CleanAttrsKeepEmpty(SetAttr(attrs, a.name, cleaned), k + 1, ncs)
           ELSE CleanAttrsKeepEmpty(attrs, k + 1, ncs)

\* the loop  for (let attr of elem.attributes)  from position k on.  The
\* attribute list is live: when the attribute at position k is removed the
\* later ones move down by one and the loop goes on at position k + 1.
RECURSIVE CleanAttrs(_, _, _)
CleanAttrs(attrs, k, ncs) ==
  IF k > Len(attrs) THEN attrs
  ELSE LET a       == attrs[k]
           cleaned == removeNullCandidateReferences(a.value, ncs)
       IN  IF a.name # "name" /\ a.value # <<>> /\ SomeIncluded(a.value, ncs)
              /\ cleaned # a.value
           THEN IF Trim(cleaned) # <<>>
                THEN CleanAttrs(SetAttr(attrs, a.name, cleaned), k + 1, ncs)
                ELSE CleanAttrs(RemoveAttr(attrs, a.name), k + 1, ncs)
           ELSE CleanAttrs(attrs, k + 1, ncs)

\* the text step of the loop body, on element i
CleanText(doc, i, ncs) ==
  LET tc      == textContent(doc, i)
      cleaned == removeNullCandidateReferences(tc, ncs)
  IN  IF tc # <<>> /\ SomeIncluded(tc, ncs) /\ cleaned # tc
      THEN SetTextContent(doc, i, cleaned)
      ELSE doc

\* the body of the loop over allElements, on element i
CleanElem(doc, i, ncs) ==
  CleanText([doc EXCEPT ![i].attrs = CleanAttrs(@, 1, ncs)], i, ncs)

\* the loop  for (let elem of allElements)  from node i on.  The collection
\* is live: the descendants an element loses are not visited.
RECURSIVE CleanWalk(_, _, _)
CleanWalk(doc, i, ncs) ==
  IF i > Len(doc) THEN doc
  ELSE IF doc[i].kind = "elem" THEN CleanWalk(CleanElem(doc, i, ncs), i + 1, ncs)
  ELSE CleanWalk(doc, i + 1, ncs)

\* the document as repairNullCandidates leaves it
NullRepaired(doc, ncs) == IF ncs = <<>> THEN doc ELSE CleanWalk(doc, 1, ncs)

repairNullCandidates(doc, ncs) == serializeToString(NullRepaired(doc, ncs))

(***************************************************************************)
(* XMLRepairTool.repairUnusedPrompts                                       *)
(***************************************************************************)
\* Variant of ToRemove: the elements are removed while the live collection
\* is walked, so that the walk steps over the element that follows a
\* removed one.
RECURSIVE LiveRemoved(_, _, _, _)
LiveRemoved(doc, k, pid, acc) ==
  LET es == SeqOfSet(ElemIdx(doc)) IN
  IF k > Len(es) THEN acc
  ELSE IF HasAttr(doc[es[k]].attrs, "name") /\ NameOf(doc[es[k]]) = pid
       THEN LiveRemoved(RemoveSubtree(doc, es[k]), k + 1, pid,
                        Append(acc, doc[es[k]].id))
       ELSE LiveRemoved(doc, k + 1, pid, acc)

ToRemoveWhileWalking(doc, pid) == LiveRemoved(doc, 1, pid, <<>>)

\* elementsToRemove for one prompt id: the identities of its declaring
\* elements, in document order
ToRemove(doc, pid) ==
  LET es == SeqOfSet({i \in ElemIdx(doc) :
                        HasAttr(doc[i].attrs, "name") /\ NameOf(doc[i]) = pid})
  IN  [k \in 1..Len(es) |-> doc[es[k]].id]

\* parent.removeChild(elem) for each collected element; an element that
\* left the document with an ancestor is taken out of that ancestor, which
\* changes nothing in the document
RECURSIVE RemoveAll(_, _)
RemoveAll(doc, ids) ==
  IF ids = <<>> THEN doc
  ELSE LET pos == PosOf(doc, Head(ids)) IN
       RemoveAll(IF pos = 0 THEN doc ELSE RemoveSubtree(doc, pos), Tail(ids))

RECURSIVE RemovePrompts(_, _)
RemovePrompts(doc, pids) ==
  IF pids = <<>> THEN doc
  ELSE RemovePrompts(RemoveAll(doc, ToRemove(doc, Head(pids))), Tail(pids))

\* the document as repairUnusedPrompts leaves it
PromptRepaired(doc) == RemovePrompts(doc, unusedPrompts(doc))

repairUnusedPrompts(doc) == serializeToString(PromptRepaired(doc))

(***************************************************************************)
(* XMLRepairTool.generateAnalysisReport                                    *)
(***************************************************************************)
targetTypes ==
  <<"ParentDataDefinition", "DataDefinition", "DataSource", "DataItem",
    "PredefinedDataItem", "VisualElements", "Image", "VisualContainer",
    "Prompt", "MediaContainer", "Section", "Container", "Actions",
    "NavigationAction">>

\* order of the UTF-16 code units of the characters of an identifier
CharRank(c) ==
  LET order == <<"0","1","2","3","4","5","6","7","8","9",
                 "a","b","c","d","e","f","g","h","i","j","k","l","m",
                 "n","o","p","q","r","s","t","u","v","w","x","y","z">>
  IN  CHOOSE k \in 1..36 : order[k] = c

RECURSIVE StrLess(_, _)
StrLess(a, b) ==
  IF b = <<>> THEN FALSE
  ELSE IF a = <<>> THEN TRUE
  ELSE IF Head(a) = Head(b) THEN StrLess(Tail(a), Tail(b))
  ELSE CharRank(Head(a)) < CharRank(Head(b))

\* Array.prototype.sort on strings
RECURSIVE SortStrings(_)
SortStrings(S) ==
  IF S = {} THEN <<>>
  ELSE LET m == CHOOSE x \in S : \A y \in S \ {x} : StrLess(x, y)
       IN  <<m>> \o SortStrings(S \ {m})

CountOf(types, t) == IF t \in DOMAIN types THEN types[t] ELSE 0

\* every line shows the count of its own tag only
filteredCountUnsummed(types, t) == CountOf(types, t)

\* the count shown on the line of target type t
filteredCount(types, t) ==
  IF t = "DataDefinition"
  THEN CountOf(types, "DataDefinition") + CountOf(types, "DataDefinitions")
  ELSE IF t = "DataSource"
  THEN CountOf(types, "DataSource") + CountOf(types, "DataSources")
  ELSE CountOf(types, t)

\* the report, as the values its lines show
generateAnalysisReport(a) ==
  [totalObjects   |-> a.totalObjects,
   objectCounts   |-> [k \in 1..Len(targetTypes) |->
                         <<targetTypes[k], filteredCount(a.objectTypes, targetTypes[k])>>],
   nullCandidates |-> a.nullCandidates,
   nullCandidateList |->
     IF a.nullCandidates > 0 THEN SortStrings(Range(a.nullCandidateIds)) ELSE <<>>,
   prompts        |-> a.prompts,
   duplicates     |-> a.duplicates]

(***************************************************************************)
(* fixXmlReport: collectIds, fixDuplicates, removeUnusedPrompts            *)
(***************************************************************************)
DescSeq(doc) == SeqOfSet(DescIdx(doc))

\* idUsed[name]: the identities of the descendants of the root that carry
\* name, in document order
idUsed(doc, name) ==
  LET es == SeqOfSet({i \in DescIdx(doc) : HasName(doc[i]) /\ NameOf(doc[i]) = name})
  IN  [k \in 1..Len(es) |-> doc[es[k]].id]

\* Object.keys(idUsed): the names in the order of their first element
usedNames(doc) ==
  LET es == DescSeq(doc) IN
  AddAllU(<<>>, Flatten([k \in 1..Len(es) |->
                           IF HasName(doc[es[k]]) THEN <<NameOf(doc[es[k]])>> ELSE <<>>]))

\* idDups: the names carried by more than one element, in the order in
\* which their second element is met
idDups(doc) ==
  LET es == DescSeq(doc) IN
  AddAllU(<<>>, Flatten([k \in 1..Len(es) |->
     IF /\ HasName(doc[es[k]])
        /\ \E j \in 1..(k - 1) :
              HasName(doc[es[j]]) /\ NameOf(doc[es[j]]) = NameOf(doc[es[k]])
     THEN <<NameOf(doc[es[k]])>> ELSE <<>>]))

\* length of the match of /[a-z]+\d+/ that starts at p, 0 if none
LooseMatchLen(s, p) ==
  LET l == RunLen(s, p, Lower)
      d == RunLen(s, p + l, Digit)
  IN  IF l > 0 /\ d > 0 THEN l + d ELSE 0

\* String.prototype.match(/[a-z]+\d+/g)
RECURSIVE LooseScanFrom(_, _, _)
LooseScanFrom(s, p, acc) ==
  LET found == {q \in p..Len(s) : LooseMatchLen(s, q) > 0} IN
  IF found = {} THEN acc
  ELSE LET q == CHOOSE x \in found : \A y \in found : x <= y
           n == LooseMatchLen(s, q)
       IN  LooseScanFrom(s, q + n, acc \cup {Slice(s, q, n)})

LooseScan(s) == LooseScanFrom(s, 1, {})

\* idReferenced: the matches in the attributes other than name and in the
\* textContent of the descendants of the root
idReferenced(doc) ==
  UNION {
    UNION ({LooseScan(doc[i].attrs[k].value) :
              k \in {j \in 1..Len(doc[i].attrs) : doc[i].attrs[j].name # "name"}}
           \cup {LooseScan(textContent(doc, i))})
    : i \in DescIdx(doc)}

\* a number as parseInt gives it: nan is TRUE for NaN
Num(n) == [nan |-> FALSE, n |-> n]

NotANumber == [nan |-> TRUE, n |-> 0]

DigitVal(c) == CHOOSE v \in 0..9 : <<"0","1","2","3","4","5","6","7","8","9">>[v + 1] = c

RECURSIVE DigitsVal(_, _)
DigitsVal(s, acc) ==
  IF s = <<>> THEN acc ELSE DigitsVal(Tail(s), 10 * acc + DigitVal(Head(s)))

\* parseInt(s, 10) for a string without sign: the leading digits after
\* leading white space, NaN when there are none
parseInt(s) ==
  LET t == TrimLeft(s)
      d == RunLen(t, 1, Digit)
  IN  IF d = 0 THEN NotANumber ELSE Num(DigitsVal(SubSeq(t, 1, d), 0))

RECURSIVE DigitsOf(_)
DigitsOf(n) ==
  IF n < 10 THEN << <<"0","1","2","3","4","5","6","7","8","9">>[n + 1] >>
  ELSE DigitsOf(n \div 10) \o << <<"0","1","2","3","4","5","6","7","8","9">>[(n % 10) + 1] >>

\* String(x)
NumString(x) == IF x.nan THEN <<"N", "a", "N">> ELSE DigitsOf(x.n)

\* x++
NumInc(x) == IF x.nan THEN x ELSE Num(x.n + 1)

\* dupName.match(/^[a-z]+/)[0], empty when there is no match
Prefix(name) == SubSeq(name, 1, RunLen(name, 1, Lower))

\* s.replace(new RegExp(old, 'g'), new), for a name of letters, digits and
\* underscores, which as a regular expression matches itself only
ReplaceName(s, old, new) ==
  ReplaceAll(s, [p \in 1..Len(s) |-> IF StartsAt(s, p, old) THEN Len(old) ELSE 0], new)

\* the loop over Array.from(el2.attributes): every attribute, name
\* included, whose value includes old is rewritten
RenameAttrs(attrs, old, new) ==
  [k \in 1..Len(attrs) |->
     IF Includes(attrs[k].value, old)
     THEN Attr(attrs[k].name, ReplaceName(attrs[k].value, old, new))
     ELSE attrs[k]]

\* the body of the loop over el2, on the element with identity id; an
\* element that has left the document changes nothing in it
RenameIn(doc, id, old, new) ==
  LET i  == PosOf(doc, id)
      d1 == [doc EXCEPT ![i].attrs = RenameAttrs(@, old, new)]
      tc == textContent(d1, i)
  IN  IF i = 0 THEN doc
      ELSE IF tc # <<>> /\ Includes(tc, old)
           THEN SetTextContent(d1, i, ReplaceName(tc, old, new))
           ELSE d1

RECURSIVE RenameWalk(_, _, _, _)
RenameWalk(doc, ids, old, new) ==
  IF ids = <<>> THEN doc
  ELSE RenameWalk(RenameIn(doc, Head(ids), old, new), Tail(ids), old, new)

\* "Update all references in attributes and text": the loop over the
\* snapshot Array.from(root.getElementsByTagName('*'))
UpdateReferences(doc, old, new) ==
  LET es == DescSeq(doc) IN
  RenameWalk(doc, [k \in 1..Len(es) |-> doc[es[k]].id], old, new)

\* el.setAttribute('name', newName) on the element with identity id
SetName(doc, id, new) ==
  LET i == PosOf(doc, id) IN
  IF i = 0 THEN doc ELSE [doc EXCEPT ![i].attrs = SetAttr(@, "name", new)]

\* the state of fixDuplicates: the document, nextUnique and changed
\* one turn of the inner loop  for (let i = 1; ...)  on element id of the
\* group of dupName
RenameOne(st, dupName, id) ==
  LET newName == Prefix(dupName) \o NumString(st.nextUnique) IN
  IF Prefix(dupName) = <<>> THEN st
  ELSE [doc        |-> UpdateReferences(SetName(st.doc, id, newName), dupName, newName),
        nextUnique |-> NumInc(st.nextUnique),
        changed    |-> st.changed + 1]

RECURSIVE RenameGroup(_, _, _)
RenameGroup(st, dupName, ids) ==
  IF ids = <<>> THEN st
  ELSE RenameGroup(RenameOne(st, dupName, Head(ids)), dupName, Tail(ids))

\* the outer loop over idDups; used holds idUsed as collectIds returned it
RECURSIVE RenameGroups(_, _, _)
RenameGroups(st, dups, used) ==
  IF dups = <<>> THEN st
  ELSE RenameGroups(RenameGroup(st, Head(dups), Tail(used[Head(dups)])),
                    Tail(dups), used)

\* fixDuplicates(root): the document it leaves and the number it returns
fixDuplicates(doc) ==
  LET dups == idDups(doc)
      used == [n \in Range(dups) |-> idUsed(doc, n)]
      root == doc[1].attrs
      start == parseInt(IF HasAttr(root, "nextUniqueNameIndex")
                           /\ AttrVal(root, "nextUniqueNameIndex") # <<>>
                        THEN AttrVal(root, "nextUniqueNameIndex")
                        ELSE <<"0">>)
      st == RenameGroups([doc |-> doc, nextUnique |-> start, changed |-> 0], dups, used)
  IN  IF dups = <<>> THEN [doc |-> doc, changed |-> 0]
      ELSE IF st.changed > 0
           THEN [doc |-> [st.doc EXCEPT ![1].attrs =
                            SetAttr(@, "nextUniqueNameIndex", NumString(st.nextUnique))],
                 changed |-> st.changed]
           ELSE [doc |-> st.doc, changed |-> 0]

\* the unused prompts of removeUnusedPrompts, in the order of Object.keys
fxUnusedPrompts(doc) ==
  LET refd == idReferenced(doc) IN
  SelectSeq(usedNames(doc), LAMBDA pid : StartsWith(pid, <<"p", "r">>) /\ pid \notin refd)

\* removeUnusedPrompts(root): every element of every unused prompt has a
\* parent element when its turn comes, is removed and counted
removeUnusedPrompts(doc) ==
  LET pids == fxUnusedPrompts(doc)
      ids  == Flatten([k \in 1..Len(pids) |-> idUsed(doc, pids[k])])
  IN  [doc |-> RemoveAll(doc, ids), removed |-> Len(ids)]

(***************************************************************************)
(* Input texts                                                             *)
(***************************************************************************)
\* an element with its content, as text
El(tag, attrs, content) == <<OpenTok(tag, attrs, 0)>> \o content \o <<CloseTok(tag)>>

\* the open tags numbered in the order of the text
RECURSIVE NumberFrom(_, _, _)
NumberFrom(toks, k, n) ==
  IF k > Len(toks) THEN toks
  ELSE IF toks[k].t = "open"
       THEN NumberFrom([toks EXCEPT ![k].id = n], k + 1, n + 1)
       ELSE NumberFrom(toks, k + 1, n)

Numbered(toks) == NumberFrom(toks, 1, 1)

vi1  == <<"v", "i", "1">>
vi5  == <<"v", "i", "5">>
ab1  == <<"a", "b", "1">>
pr1  == <<"p", "r", "1">>
xy99 == <<"x", "y", "9", "9">>

\* the pieces a report is put together from
Pieces ==
  << El("A", <<Attr("name", vi1)>>, <<>>),
     El("A", <<Attr("name", vi5)>>, <<>>),
     El("A", <<Attr("name", ab1)>>, <<>>),
     El("Prompt", <<Attr("name", pr1)>>, <<>>),
     El("Prompt", <<Attr("name", pr1)>>, El("A", <<Attr("name", ab1)>>, <<>>)),
     El("B", <<Attr("ref", ab1)>>, <<>>),
     El("B", <<Attr("ref", pr1)>>, <<>>),
     El("Property", <<Attr("value", xy99)>>, <<>>),
     El("S", <<>>, El("T", <<>>, <<TextTok(xy99)>>)),
     El("T", <<>>, <<TextTok(<<"s", "e", "e", " ">> \o ab1)>>),
     El("A", <<Attr("name", vi5)>>, El("A", <<Attr("name", vi1)>>, <<>>)),
     <<TextTok(<<"\n", " ">>)>> >>

\* the open tags of the root element
Roots ==
  { OpenTok("Root", <<>>, 0),
    OpenTok("Root", <<Attr("name", <<"a">>), Attr("nextUniqueNameIndex", <<"5">>)>>, 0) }

\* largest number of pieces in the root element of an input
MaxPieces == 2

\* number of requests the POST handler serves at a time
MaxRequests == 2

\* largest value of Date.now(), counted in milliseconds from the first
MaxClock == 1

PieceSeqs == UNION {[1..n -> 1..Len(Pieces)] : n \in 0..MaxPieces}

\* the well-formed inputs
WellFormed ==
  { Numbered(<<r>> \o Flatten([k \in 1..Len(ps) |-> Pieces[ps[k]]]) \o <<CloseTok("Root")>>)
    : r \in Roots, ps \in PieceSeqs }

\* inputs that are not well formed: a root element that is never closed,
\* and a close tag that matches no open tag
Malformed ==
  { <<OpenTok("Root", <<>>, 1)>>,
    <<OpenTok("Root", <<>>, 1), CloseTok("A"), CloseTok("Root")>> }

\* the safety limit of the null candidate loop
LoopLimit == 10

\* the letters of the identifiers of a chain
Letters == <<"a","b","c","d","e","f","g","h","i","j","k","l">>

\* a text in which n references are nested: removing the reference ${aa1}
\* from  c${b${aa1}b2}c3  leaves  c${bb2}c3, removing ${bb2} from that
\* leaves cc3, and so on
RECURSIVE Chain(_)
Chain(n) ==
  IF n = 1 THEN <<"a", "a", "1">>
  ELSE <<Letters[n], "$", "{">> \o Chain(n - 1)
         \o <<"}", Letters[n], DigitsOf(n % 10)[1]>>

\* the inputs with a chain of references: a short one, one that the loop
\* clears in its last permitted turn, and one that it cannot clear
Chained ==
  { Numbered(<<OpenTok("Root", <<>>, 0)>>
             \o El("T", <<>>, <<TextTok(Chain(n))>>)
             \o <<CloseTok("Root")>>) : n \in {2, LoopLimit, LoopLimit + 1} }


\* contents of further inputs: values that look like colour codes or are
\* on the exclusion list, several attributes on one element, prompts that
\* refer to each other, tokens in attribute values, text spread over
\* several elements, and occurrences next to '#'
ProbeContents ==
  { El("Property", <<Attr("value", <<"a", "b", "1", "2", "3", "4">>)>>, <<>>)
      \o El("Property", <<Attr("value", <<"b", "i", "1">>)>>, <<>>)
      \o El("T", <<>>, <<TextTok(<<"b", "i", "1", " ", "a", "b", "1", "2", "3", "4">>)>>),
    El("Property", <<Attr("value", <<"a", "b", "1", "2", "3", "4">> \o <<" ">> \o xy99)>>, <<>>),
    El("B", <<Attr("a", xy99), Attr("b", xy99)>>, <<>>),
    El("Prompt", <<Attr("name", pr1)>>, El("B", <<Attr("ref", <<"p", "r", "2">>)>>, <<>>))
      \o El("Prompt", <<Attr("name", <<"p", "r", "2">>)>>, <<>>),
    El("B", <<Attr("ref", <<" ", "x", "y", "9", "9", " ", " ", "a", "b", "1">>)>>, <<>>)
      \o El("A", <<Attr("name", ab1)>>, <<>>),
    El("B", <<Attr("ref", <<"a", "b", "c", "1", "2", "3">>), Attr("name", xy99)>>, <<>>)
      \o El("T", <<>>, <<TextTok(<<"a", "b", "c", "1", "2", "3">>)>>),
    El("B", <<Attr("ref", <<"x", "y", "9", "9", ",", "a", "b", "1">>)>>, <<>>)
      \o El("B", <<Attr("ref", <<"v", "i", "5", "\t", "v", "i", "1">>)>>, <<>>),
    El("S", <<>>, El("T", <<>>, <<TextTok(<<"x", "y">>)>>)
                    \o El("T", <<>>, <<TextTok(<<"9", "9">>)>>)),
    El("T", <<>>, <<TextTok(<<"#", "x", "y", "9", "9", " ", "(", "v", "i", "5", ")", " ", "v", "i", "5", "a", " ", "a", "b", "1">>)>>),
    El("Property", <<Attr("value", xy99)>>, <<>>)
      \o El("T", <<>>, <<TextTok(<<"x", "y", "9", "9", "#", " ", "#", "x", "y", "9", "9", " ", "a", "x", "y", "9", "9">>)>>),
    El("Property", <<Attr("name", vi1)>>, <<>>)
      \o El("A", <<Attr("name", vi1)>>, <<>>)
      \o El("Property", <<Attr("name", vi5)>>, <<>>)
      \o El("Property", <<Attr("name", vi5)>>, <<>>)
      \o El("A", <<Attr("name", <<"X">>)>>, <<>>)
      \o El("A", <<Attr("name", <<"X">>)>>, <<>>),
    El("Prompt", <<Attr("name", pr1)>>, <<>>)
      \o El("B", <<Attr("ref", <<"p", "r", "1", " ", "a", "b", "1">>)>>, <<>>)
      \o El("A", <<Attr("name", ab1)>>, <<>>),
    El("Prompt", <<Attr("name", pr1)>>, <<>>)
      \o El("T", <<>>, <<TextTok(<<"x", "p", "r", "1", "0">>)>>),
    El("A", <<Attr("name", vi1)>>, <<>>)
      \o El("A", <<Attr("name", vi1)>>, <<>>)
      \o El("B", <<Attr("ref", <<"v", "i", "1", "0">>)>>, <<>>),
    El("DynVar", <<Attr("name", vi1)>>, <<>>)
      \o El("Category", <<Attr("name", vi1)>>, <<>>),
    El("Property", <<Attr("value", xy99), Attr("expr", <<"x", "y", "9", "9", "#", ",", " ", "(", "x", "y", "9", "9", ")">>)>>, <<>>),
    El("DataDefinitions", <<>>,
         El("DataDefinition", <<>>, <<>>) \o El("DataDefinition", <<>>, <<>>))
      \o El("DataSources", <<>>, El("DataSource", <<>>, <<>>))
      \o El("Image", <<>>, <<>>)
      \o El("Other", <<>>, <<>>) }

Probes ==
  { Numbered(<<OpenTok("Root", <<>>, 0)>> \o c \o <<CloseTok("Root")>>)
    : c \in ProbeContents }

(***************************************************************************)
(* The two engines as state machines                                       *)
(***************************************************************************)
VARIABLES
  pc,                     \* position in repairXML (rx_*) or fixXmlReport (fx_*)
  xmlContent,             \* the input text
  doc,                    \* doc of repairXML, xmlDoc of fixXmlReport
  repairedContent,        \* repairXML
  analysis,               \* repairXML
  hasRepairs,             \* repairXML
  nullCandidateLoopCount, \* repairXML
  duplicates,             \* fixXmlReport
  prompts,                \* fixXmlReport
  result,                 \* what the engine returned
  passes,                 \* history: the passes in the order they ran,
                          \* each with the identifiers it was to repair
  thrown,                 \* message of the Error the engine threw, "" if none
  requests,               \* POST: the locals of each request and its response
  files,                  \* POST: the file system, path -> bytes
  now,                    \* POST: Date.now()
  upload,                 \* RepairReportUpload: its useState values
  pending                 \* RepairReportUpload: the file of the awaited repair

engineVars == <<pc, xmlContent, doc, repairedContent, analysis, hasRepairs,
                nullCandidateLoopCount, duplicates, prompts, result, passes,
                thrown>>

hostVars == <<requests, files, now, upload, pending>>

vars == <<engineVars, hostVars>>

\* useState<File | null>(null)
NoFile == [name |-> <<>>, type |-> ""]

\* the handler and the component before anything has happened: route.ts
\* lines 842-844, repair-report-upload.tsx lines 195-203; a path that is
\* null is the empty sequence
HostIdle ==
  /\ requests = [r \in 1..MaxRequests |->
                  [pc |-> "idle", file |-> NoFile,
                   tempInputPath |-> <<>>, tempOutputPath |-> <<>>,
                   response |-> [status |-> 0, bytes |-> 0],
                   repairedCleaned |-> FALSE]]
  /\ files = [p \in {} |-> 0]
  /\ now = 0
  /\ upload = [file |-> NoFile, isProcessing |-> FALSE, isCompleted |-> FALSE,
               fileName |-> <<>>, error |-> "", repairedFile |-> <<>>,
               repairResults |-> "null", analysisOutput |-> "",
               repairedFileName |-> <<>>]
  /\ pending = NoFile

\* an entry of the history
Pass(name, ids) == [pass |-> name, ids |-> ids]

\* the document DOMParser returns for text that is not well formed
ParserErrorDoc == <<ElemNode(0, "parsererror", <<>>, 0)>>

\* DOMParser.parseFromString as both engines use it
Parsed(toks) ==
  IF parseFromString(toks).ok THEN parseFromString(toks).doc ELSE ParserErrorDoc

Init ==
  /\ pc \in {"rx_start", "fx_start"}
  /\ xmlContent \in WellFormed \cup Malformed \cup Probes \cup Chained
  /\ doc = <<>>
  /\ repairedContent = <<>>
  /\ analysis = analyzeXML(<<>>)
  /\ hasRepairs = FALSE
  /\ nullCandidateLoopCount = 0
  /\ duplicates = 0
  /\ prompts = 0
  /\ result = <<>>
  /\ passes = <<>>
  /\ thrown = ""
  /\ HostIdle

\* the catch clause of repairXML, lines 73-76: the error caught is written
\* to the console and an Error with a fixed message is thrown in its place
Caught(error) == "Failed to repair XML file"

\* Variant of RxParse: the document is not tested for a parsererror root.
RxParseUnchecked ==
  /\ pc = "rx_start"
  /\ pc' = "rx_loop"
  /\ doc' = Parsed(xmlContent)
  /\ analysis' = analyzeXML(Parsed(xmlContent))
  /\ repairedContent' = xmlContent
  /\ UNCHANGED <<hostVars, thrown, xmlContent, hasRepairs, nullCandidateLoopCount,
                 duplicates, prompts, result, passes>>

\* repairXML, lines 22-38: parse, reject a parsererror document, analyze
RxParse ==
  /\ pc = "rx_start"
  /\ IF Parsed(xmlContent)[1].tag = "parsererror"
     THEN /\ pc' = "rx_failed"
          /\ thrown' = Caught("Invalid XML format")
          /\ UNCHANGED <<doc, repairedContent, analysis>>
     ELSE /\ pc' = "rx_loop"
          /\ doc' = Parsed(xmlContent)
          /\ analysis' = analyzeXML(Parsed(xmlContent))
          /\ repairedContent' = xmlContent
          /\ UNCHANGED thrown
  /\ UNCHANGED <<hostVars, xmlContent, hasRepairs, nullCandidateLoopCount,
                 duplicates, prompts, result, passes>>

\* Variant of RxLoopTurn: the loop has no safety limit.
RxLoopTurnUncapped ==
  /\ pc = "rx_loop"
  /\ analysis.nullCandidates > 0
  /\ LET text == repairNullCandidates(Parsed(repairedContent), analysis.nullCandidateIds)
     IN  /\ repairedContent' = text
         /\ doc' = Parsed(text)
         /\ analysis' = analyzeXML(Parsed(text))
  /\ hasRepairs' = TRUE
  /\ nullCandidateLoopCount' = nullCandidateLoopCount + 1
  /\ passes' = Append(passes, Pass("nullRepair", analysis.nullCandidateIds))
  /\ UNCHANGED <<hostVars, thrown, pc, xmlContent, duplicates, prompts, result>>

\* one turn of the while loop, lines 39-46
RxLoopTurn ==
  /\ pc = "rx_loop"
  /\ analysis.nullCandidates > 0
  /\ nullCandidateLoopCount < LoopLimit
  /\ LET text == repairNullCandidates(Parsed(repairedContent), analysis.nullCandidateIds)
     IN  /\ repairedContent' = text
         /\ doc' = Parsed(text)
         /\ analysis' = analyzeXML(Parsed(text))
  /\ hasRepairs' = TRUE
  /\ nullCandidateLoopCount' = nullCandidateLoopCount + 1
  /\ passes' = Append(passes, Pass("nullRepair", analysis.nullCandidateIds))
  /\ UNCHANGED <<hostVars, thrown, pc, xmlContent, duplicates, prompts, result>>

\* the while condition is false
RxLoopEnd ==
  /\ pc = "rx_loop"
  /\ ~(analysis.nullCandidates > 0 /\ nullCandidateLoopCount < LoopLimit)
  /\ pc' = "rx_prompts"
  /\ passes' = Append(passes, Pass("nullLoopEnd", <<>>))
  /\ UNCHANGED <<hostVars, thrown, xmlContent, doc, repairedContent, analysis, hasRepairs,
                 nullCandidateLoopCount, duplicates, prompts, result>>

\* Variant of RxPrompts: the unused prompt repair runs without the test of
\* analysis.prompts.
RxPromptsUnguarded ==
  /\ pc = "rx_prompts"
  /\ repairedContent' = repairUnusedPrompts(doc)
  /\ doc' = PromptRepaired(doc)
  /\ hasRepairs' = TRUE
  /\ passes' = Append(passes, Pass("prompts", unusedPrompts(doc)))
  /\ pc' = "rx_return"
  /\ UNCHANGED <<hostVars, thrown, xmlContent, analysis, nullCandidateLoopCount, duplicates,
                 prompts, result>>

\* lines 48-52
RxPrompts ==
  /\ pc = "rx_prompts"
  /\ IF analysis.prompts > 0
     THEN /\ repairedContent' = repairUnusedPrompts(doc)
          /\ doc' = PromptRepaired(doc)
          /\ hasRepairs' = TRUE
          /\ passes' = Append(passes, Pass("prompts", unusedPrompts(doc)))
     ELSE UNCHANGED <<repairedContent, doc, hasRepairs, passes>>
  /\ pc' = "rx_return"
  /\ UNCHANGED <<hostVars, thrown, xmlContent, analysis, nullCandidateLoopCount, duplicates,
                 prompts, result>>

\* Variant of RxReturn: the counts returned are those of the analysis of
\* the input.
RxReturnInputCounts ==
  /\ pc = "rx_return"
  /\ LET originalAnalysis == analyzeXML(Parsed(xmlContent)) IN
     result' =
       [file    |-> repairedContent,
        results |-> [duplicates        |-> originalAnalysis.duplicates,
                     prompts           |-> originalAnalysis.prompts,
                     nullCandidates    |-> Len(originalAnalysis.nullCandidateIds),
                     hasDuplicates     |-> originalAnalysis.duplicates > 0,
                     hasPrompts        |-> originalAnalysis.prompts > 0,
                     hasNullCandidates |-> Len(originalAnalysis.nullCandidateIds) > 0,
                     totalObjects      |-> originalAnalysis.totalObjects],
        analysis   |-> generateAnalysisReport(originalAnalysis),
        hasRepairs |-> hasRepairs]
  /\ pc' = "rx_done"
  /\ UNCHANGED <<hostVars, thrown, xmlContent, doc, repairedContent, analysis, hasRepairs,
                 nullCandidateLoopCount, duplicates, prompts, passes>>

\* lines 54-72.  file is the Base64 of repairedContent; the field holds the
\* text that decoding it gives.
RxReturn ==
  /\ pc = "rx_return"
  /\ LET originalAnalysis == analysis IN
     result' =
       [file    |-> repairedContent,
        results |-> [duplicates        |-> originalAnalysis.duplicates,
                     prompts           |-> originalAnalysis.prompts,
                     nullCandidates    |-> Len(originalAnalysis.nullCandidateIds),
                     hasDuplicates     |-> originalAnalysis.duplicates > 0,
                     hasPrompts        |-> originalAnalysis.prompts > 0,
                     hasNullCandidates |-> Len(originalAnalysis.nullCandidateIds) > 0,
                     totalObjects      |-> originalAnalysis.totalObjects],
        analysis   |-> generateAnalysisReport(originalAnalysis),
        hasRepairs |-> hasRepairs]
  /\ pc' = "rx_done"
  /\ UNCHANGED <<hostVars, thrown, xmlContent, doc, repairedContent, analysis, hasRepairs,
                 nullCandidateLoopCount, duplicates, prompts, passes>>

\* fixXmlReport, lines 416-422: parse; no test for a parsererror document
FxParse ==
  /\ pc = "fx_start"
  /\ doc' = Parsed(xmlContent)
  /\ pc' = "fx_duplicates"
  /\ UNCHANGED <<hostVars, thrown, xmlContent, repairedContent, analysis, hasRepairs,
                 nullCandidateLoopCount, duplicates, prompts, result, passes>>

\* lines 510-511
FxDuplicates ==
  /\ pc = "fx_duplicates"
  /\ doc' = fixDuplicates(doc).doc
  /\ duplicates' = fixDuplicates(doc).changed
  /\ passes' = Append(passes, Pass("duplicates", idDups(doc)))
  /\ pc' = "fx_prompts"
  /\ UNCHANGED <<hostVars, thrown, xmlContent, repairedContent, analysis, hasRepairs,
                 nullCandidateLoopCount, prompts, result>>

\* lines 512-513
FxPrompts ==
  /\ pc = "fx_prompts"
  /\ doc' = removeUnusedPrompts(doc).doc
  /\ prompts' = removeUnusedPrompts(doc).removed
  /\ passes' = Append(passes, Pass("prompts", fxUnusedPrompts(doc)))
  /\ pc' = "fx_return"
  /\ UNCHANGED <<hostVars, thrown, xmlContent, repairedContent, analysis, hasRepairs,
                 nullCandidateLoopCount, duplicates, result>>

\* lines 515-520
FxReturn ==
  /\ pc = "fx_return"
  /\ result' =
       [xml     |-> serializeToString(doc),
        results |-> [duplicates    |-> duplicates,
                     prompts       |-> prompts,
                     hasDuplicates |-> duplicates > 0,
                     hasPrompts    |-> prompts > 0]]
  /\ pc' = "fx_done"
  /\ UNCHANGED <<hostVars, thrown, xmlContent, doc, repairedContent, analysis, hasRepairs,
                 nullCandidateLoopCount, duplicates, prompts, passes>>

Next ==
  \/ RxParse
  \/ RxLoopTurn
  \/ RxLoopEnd
  \/ RxPrompts
  \/ RxReturn
  \/ FxParse
  \/ FxDuplicates
  \/ FxPrompts
  \/ FxReturn

Spec == Init /\ [][Next]_vars

\* the states in which an engine has returned or thrown: no step is
\* possible in them, and one is possible in every other state
Terminal == pc \in {"rx_done", "rx_failed", "fx_done"}

\* both engines run to their end without waiting for anything: a step
\* that can be taken is taken.  This is WF_vars(Next), that is
\* []<>(~ENABLED <<Next>>_vars) \/ []<><<Next>>_vars, with
\* ENABLED <<Next>>_vars written as ~Terminal.
FairSpec == Spec /\ ([]<>Terminal \/ []<><<Next>>_vars)

(***************************************************************************)
(* The POST handler of the repair-report route                             *)
(* src/src/app/api/repair-report/route.ts                                  *)
(*                                                                         *)
(* Every await of the handler is a point where another request can run,    *)
(* so the code between two awaits is one step.  The bytes of an upload     *)
(* are named by the request that uploaded them; files maps each path that  *)
(* exists to the bytes it holds.                                           *)
(***************************************************************************)
\* the files a user can pick, at the route and in the upload component
Files ==
  { [name |-> <<"a", ".", "x", "m", "l">>,      type |-> "text/xml"],
    [name |-> <<"b", ".", "x", "m", "l">>,      type |-> ""],
    [name |-> <<"p", ".", "j", "s", "o", "n">>, type |-> "application/json"],
    [name |-> <<"n", ".", "t", "x", "t">>,      type |-> "text/plain"] }

\* String.prototype.endsWith
EndsWith(s, suffix) ==
  /\ Len(s) >= Len(suffix)
  /\ SubSeq(s, Len(s) - Len(suffix) + 1, Len(s)) = suffix

\* the extensions the handler and the component know
Ext == [xml  |-> <<".", "x", "m", "l">>,
        json |-> <<".", "j", "s", "o", "n">>]

\* path.join(tempDir, `${kind}_${timestamp}_${name}`): the timestamp is
\* written in digits and ends at the first underscore after the kind, so
\* two paths are the same text exactly when kind, timestamp and name agree
TempPath(kind, timestamp, name) == <<kind, timestamp, name>>

\* tempInputPath.replace('.xml', '_repaired.xml'): the first '.xml' of the
\* path, which lies in the name, is replaced
repairedFilePath(path) ==
  LET name == path[3]
      hits == {q \in 1..Len(name) : StartsAt(name, q, Ext.xml)}
  IN  IF hits = {} THEN path
      ELSE LET q == CHOOSE x \in hits : \A y \in hits : x <= y
           IN  <<path[1], path[2],
                 SubSeq(name, 1, q - 1)
                   \o <<"_", "r", "e", "p", "a", "i", "r", "e", "d">> \o Ext.xml
                   \o SubSeq(name, q + Len(Ext.xml), Len(name))>>

\* lines 842-866: the form data arrive; no file or a wrong extension
\* returns 400 with no path computed, so that finally does nothing;
\* otherwise both paths are computed from Date.now() and the file name
PostReceive(r) ==
  /\ requests[r].pc = "idle"
  /\ \E f \in Files \cup {NoFile}, timestamp \in now..MaxClock :
       /\ now' = timestamp
       /\ requests' =
            IF f = NoFile \/ (~EndsWith(f.name, Ext.xml) /\ ~EndsWith(f.name, Ext.json))
            THEN [requests EXCEPT ![r].pc = "returned",
                                  ![r].file = f,
                                  ![r].response = [status |-> 400, bytes |-> 0]]
            ELSE [requests EXCEPT
                    ![r].pc = IF EndsWith(f.name, Ext.json) THEN "json" ELSE "write",
                    ![r].file = f,
                    ![r].tempInputPath = TempPath("input", timestamp, f.name),
                    ![r].tempOutputPath = TempPath("output", timestamp, f.name)]
  /\ UNCHANGED <<files, upload, pending, engineVars>>

\* lines 871-900: a JSON upload is processed in memory; nothing is written
PostJson(r) ==
  /\ requests[r].pc = "json"
  /\ \E processed \in BOOLEAN :
       requests' = [requests EXCEPT
                      ![r].pc = "unlink_input",
                      ![r].response = IF processed THEN [status |-> 200, bytes |-> r]
                                      ELSE [status |-> 500, bytes |-> 0]]
  /\ UNCHANGED <<files, now, upload, pending, engineVars>>

\* lines 904-905: the upload is written to the temporary input path
PostWriteInput(r) ==
  /\ requests[r].pc = "write"
  /\ files' = [p \in DOMAIN files \cup {requests[r].tempInputPath} |->
                 IF p = requests[r].tempInputPath THEN r ELSE files[p]]
  /\ requests' = [requests EXCEPT ![r].pc = "exec"]
  /\ UNCHANGED <<now, upload, pending, engineVars>>

\* lines 919-931 and 969-972: the script runs on the input path.  It
\* ends well, with an error output, or fails; when it could read its input
\* it may have saved the repaired report next to it with the suffix
\* _repaired.xml (README of the script).
PostExec(r) ==
  /\ requests[r].pc = "exec"
  /\ \E outcome \in {"ok", "stderr", "failed"}, saved \in BOOLEAN :
       /\ saved => requests[r].tempInputPath \in DOMAIN files
       /\ files' =
            IF saved
            THEN LET path == repairedFilePath(requests[r].tempInputPath) IN
                   [p \in DOMAIN files \cup {path} |->
                      IF p = path THEN files[requests[r].tempInputPath]
                      ELSE files[p]]
            ELSE files
       /\ requests' = [requests EXCEPT
                         ![r].pc = IF outcome = "ok" THEN "read_repaired"
                                   ELSE "fallback"]
  /\ UNCHANGED <<now, upload, pending, engineVars>>

\* lines 935-966 and 974-1006: the fallback reads the input path again
\* and analyzes it; a failed read or analysis returns 500
PostFallback(r) ==
  /\ requests[r].pc = "fallback"
  /\ \E analyzed \in BOOLEAN :
       requests' = [requests EXCEPT
                      ![r].pc = "unlink_input",
                      ![r].response =
                        IF requests[r].tempInputPath \in DOMAIN files /\ analyzed
                        THEN [status |-> 200, bytes |-> files[requests[r].tempInputPath]]
                        ELSE [status |-> 500, bytes |-> 0]]
  /\ UNCHANGED <<files, now, upload, pending, engineVars>>

\* lines 1009-1012 and 1019-1034: the repaired file is read, if there is one
PostReadRepaired(r) ==
  /\ requests[r].pc = "read_repaired"
  /\ LET path == repairedFilePath(requests[r].tempInputPath) IN
       requests' =
         IF path \in DOMAIN files
         THEN [requests EXCEPT ![r].pc = "unlink_input",
                               ![r].response = [status |-> 200, bytes |-> files[path]]]
         ELSE [requests EXCEPT ![r].pc = "read_original"]
  /\ UNCHANGED <<files, now, upload, pending, engineVars>>

\* lines 1012-1015, 1019-1034 and 1036-1044: without a repaired file the
\* input path is read; a failed read is caught and returns 500
PostReadOriginal(r) ==
  /\ requests[r].pc = "read_original"
  /\ requests' = [requests EXCEPT
                    ![r].pc = "unlink_input",
                    ![r].response =
                      IF requests[r].tempInputPath \in DOMAIN files
                      THEN [status |-> 200, bytes |-> files[requests[r].tempInputPath]]
                      ELSE [status |-> 500, bytes |-> 0]]
  /\ UNCHANGED <<files, now, upload, pending, engineVars>>

\* lines 1045-1048: finally unlinks the input path; unlink of a path that
\* does not exist throws, which ends the clean-up at line 1066
PostUnlinkInput(r) ==
  /\ requests[r].pc = "unlink_input"
  /\ IF requests[r].tempInputPath \in DOMAIN files
     THEN /\ files' = [p \in DOMAIN files \ {requests[r].tempInputPath} |->
                          files[p]]
          /\ requests' = [requests EXCEPT ![r].pc = "unlink_output"]
     ELSE /\ requests' = [requests EXCEPT ![r].pc = "returned"]
          /\ UNCHANGED files
  /\ UNCHANGED <<now, upload, pending, engineVars>>

\* lines 1049-1068: finally unlinks the output path and then the files
\* named *_repaired.xml of the project directory, none of which is a
\* temporary path; unlink of a path that does not exist throws, which
\* ends the clean-up at line 1066
PostUnlinkOutput(r) ==
  /\ requests[r].pc = "unlink_output"
  /\ IF requests[r].tempOutputPath \in DOMAIN files
     THEN /\ files' = [p \in DOMAIN files \ {requests[r].tempOutputPath} |->
                          files[p]]
          /\ requests' = [requests EXCEPT ![r].pc = "returned",
                                          ![r].repairedCleaned = TRUE]
     ELSE /\ requests' = [requests EXCEPT ![r].pc = "returned"]
          /\ UNCHANGED files
  /\ UNCHANGED <<now, upload, pending, engineVars>>

PostNext ==
  \E r \in 1..MaxRequests :
    \/ PostReceive(r)
    \/ PostJson(r)
    \/ PostWriteInput(r)
    \/ PostExec(r)
    \/ PostFallback(r)
    \/ PostReadRepaired(r)
    \/ PostReadOriginal(r)
    \/ PostUnlinkInput(r)
    \/ PostUnlinkOutput(r)

\* no engine of the first part runs beside the handler or the component
HostInit ==
  /\ pc = "off"
  /\ xmlContent = <<>>
  /\ doc = <<>>
  /\ repairedContent = <<>>
  /\ analysis = analyzeXML(<<>>)
  /\ hasRepairs = FALSE
  /\ nullCandidateLoopCount = 0
  /\ duplicates = 0
  /\ prompts = 0
  /\ result = <<>>
  /\ passes = <<>>
  /\ thrown = ""
  /\ HostIdle

PostSpec == HostInit /\ [][PostNext]_vars

(***************************************************************************)
(* The upload component                                                    *)
(* src/src/components/repair-report-upload.tsx, RepairReportUpload         *)
(*                                                                         *)
(* A handler runs to its await or to its end in one step.  The repaired    *)
(* file of a response is named by the file it was computed from; null and  *)
(* the empty string are the empty sequence.                                *)
(***************************************************************************)
\* lines 206-219
handleFileChange ==
  /\ \E selectedFile \in Files \cup {NoFile} :
       IF /\ selectedFile # NoFile
          /\ \/ selectedFile.type = "text/xml"
             \/ selectedFile.type = "application/json"
             \/ EndsWith(selectedFile.name, Ext.xml)
             \/ EndsWith(selectedFile.name, Ext.json)
       THEN upload' = [upload EXCEPT !.file = selectedFile,
                                     !.fileName = selectedFile.name,
                                     !.isCompleted = FALSE,
                                     !.error = "",
                                     !.repairedFile = <<>>,
                                     !.repairResults = "null",
                                     !.analysisOutput = ""]
       ELSE IF selectedFile # NoFile
       THEN upload' = [upload EXCEPT
                         !.error = "Please select a valid XML or JSON file"]
       ELSE UNCHANGED upload
  /\ UNCHANGED <<pending, requests, files, now, engineVars>>

\* lines 221-227, up to the await; the button that calls it is rendered
\* when a file is selected and nothing is processing or completed (307)
handleRepair ==
  /\ upload.file # NoFile /\ ~upload.isProcessing /\ ~upload.isCompleted
  /\ upload' = [upload EXCEPT !.isProcessing = TRUE, !.error = ""]
  /\ pending' = upload.file
  /\ UNCHANGED <<requests, files, now, engineVars>>

\* lines 227-240, from the await on: the dispatcher answers for the file
\* it was called with, or throws
handleRepairSettled ==
  /\ pending # NoFile
  /\ \E results \in {"issues", "clean", "thrown"}, named \in BOOLEAN :
       upload' =
         IF results = "thrown"
         THEN [upload EXCEPT !.error = "An error occurred",
                             !.isCompleted = FALSE,
                             !.isProcessing = FALSE]
         ELSE [upload EXCEPT
                 !.repairedFile = pending.name,
                 !.repairResults = results,
                 !.analysisOutput = "analysis",
                 !.repairedFileName =
                   IF named THEN <<"r", "e", "p", "a", "i", "r", "e", "d", "_">>
                                   \o pending.name
                   ELSE <<>>,
                 !.isCompleted = TRUE,
                 !.isProcessing = FALSE]
  /\ pending' = NoFile
  /\ UNCHANGED <<requests, files, now, engineVars>>

\* lines 243-271; the button that calls it is rendered when the completed
\* results report an issue (341)
handleDownload ==
  /\ upload.isCompleted /\ upload.repairedFile # <<>>
  /\ upload.repairResults = "issues"
  /\ IF upload.repairedFile = <<>> \/ upload.repairedFileName = <<>>
     THEN UNCHANGED upload
     ELSE upload' = [upload EXCEPT !.isCompleted = FALSE,
                                   !.repairedFile = <<>>,
                                   !.repairResults = "null",
                                   !.analysisOutput = "",
                                   !.repairedFileName = <<>>,
                                   !.file = NoFile,
                                   !.fileName = <<>>,
                                   !.error = ""]
  /\ UNCHANGED <<pending, requests, files, now, engineVars>>

UploadNext ==
  \/ handleFileChange
  \/ handleRepair
  \/ handleRepairSettled
  \/ handleDownload

UploadSpec == HostInit /\ [][UploadNext]_vars

(***************************************************************************)
(* Properties                                                              *)
(***************************************************************************)
\* the input as a document
InputDoc == Parsed(xmlContent)

\* the document the engine returned, read back from the text it returned
Returned ==
  IF pc = "rx_done" THEN Parsed(result.file) ELSE Parsed(result.xml)

Done == pc \in {"rx_done", "fx_done"}

\* the elements of a document: identity, tag, depth and name attribute
Skeleton(d) ==
  LET es == ElemSeq(d) IN
  [k \in 1..Len(es) |->
     <<d[es[k]].id, d[es[k]].tag, d[es[k]].depth,
       SelectSeq(d[es[k]].attrs, LAMBDA a : a.name = "name")>>]

PassNames == [k \in 1..Len(passes) |-> passes[k].pass]

\* C1: when the null candidate loop of repairXML stopped with no candidate
\* left, analyzeXML finds no null candidate in the document repairXML
\* returned.
C1_NoNullCandidatesAfterRepair ==
  (pc = "rx_done" /\ analysis.nullCandidates = 0)
    => nullCandidateIds(Returned) = <<>>

\* C2: a turn of the null candidate repair leaves the elements of the
\* document as they were: same elements, same tags, same positions, same
\* name attributes.
C2_NullRepairKeepsElements ==
  [][(pc = "rx_loop" /\ nullCandidateLoopCount' = nullCandidateLoopCount + 1)
       => Skeleton(doc') = Skeleton(doc)]_vars

\* C3: the null candidate count, flag and report section that repairXML
\* returns are those of the input document, before any repair.
C3_ReportsPreRepairNullCandidates ==
  pc = "rx_done" =>
    LET pre == analyzeXML(InputDoc) IN
    /\ result.results.nullCandidates = pre.nullCandidates
    /\ result.results.hasNullCandidates = (pre.nullCandidates > 0)
    /\ result.analysis.nullCandidates = pre.nullCandidates
    /\ result.analysis.nullCandidateList = SortStrings(Range(pre.nullCandidateIds))

\* C4: in every run the passes come in the order duplicate repair, null
\* candidate repair (iterated), unused prompt repair: a null candidate
\* repair is preceded by the duplicate repair, and the unused prompt repair
\* by the end of the null candidate loop.
C4_PassOrder ==
  \A k \in 1..Len(passes) :
    /\ passes[k].pass \in {"nullRepair", "nullLoopEnd", "prompts"}
         => PassNames[1] = "duplicates"
    /\ passes[k].pass = "prompts"
         => \E j \in 1..(k - 1) : passes[j].pass = "nullLoopEnd"
    /\ passes[k].pass = "nullRepair"
         => \A j \in 1..(k - 1) : passes[j].pass \in {"duplicates", "nullRepair"}

\* the elements fixDuplicates is to rename, in the order of its loops: of
\* every duplicate group of the input all elements but the first
ToRename ==
  LET dups == idDups(InputDoc) IN
  Flatten([k \in 1..Len(dups) |->
             IF Prefix(dups[k]) = <<>> THEN <<>>
             ELSE [j \in 1..(Len(idUsed(InputDoc, dups[k])) - 1) |->
                     [id |-> idUsed(InputDoc, dups[k])[j + 1], old |-> dups[k]]]])

\* the root counter of a document, 0 when the attribute is absent
Counter(d) ==
  IF HasAttr(d[1].attrs, "nextUniqueNameIndex")
  THEN DigitsVal(AttrVal(d[1].attrs, "nextUniqueNameIndex"), 0)
  ELSE 0

\* C5: after duplicate repair the first element of every duplicate group
\* still carries the shared name, every later element carries the prefix of
\* the shared name followed by the value the root counter had when it was
\* renamed, the counter has advanced by the number of renamed elements and
\* that number is the reported count.
C5_FirstKeptLaterRenamed ==
  (pc = "fx_prompts" /\ InputDoc[1].tag # "parsererror") =>
    /\ \A n \in Range(idDups(InputDoc)) :
         LET first == PosOf(doc, idUsed(InputDoc, n)[1]) IN
         first # 0 /\ HasName(doc[first]) /\ NameOf(doc[first]) = n
    /\ \A k \in 1..Len(ToRename) :
         LET pos == PosOf(doc, ToRename[k].id) IN
         /\ pos # 0
         /\ NameOf(doc[pos]) =
              Prefix(ToRename[k].old) \o DigitsOf(Counter(InputDoc) + k - 1)
    /\ duplicates = Len(ToRename)
    /\ Len(ToRename) > 0 => Counter(doc) = Counter(InputDoc) + Len(ToRename)

\* C6: in the document an engine returns no two elements carry the same
\* identifier-shaped name.
C6_NamesUnique ==
  Done =>
    \A i, j \in ElemIdx(Returned) :
      (i # j /\ HasName(Returned[i]) /\ HasName(Returned[j])
         /\ idCheck(NameOf(Returned[i])))
        => NameOf(Returned[i]) # NameOf(Returned[j])

\* the prefixes of the names fixDuplicates renamed
AffectedPrefixes == {Prefix(ToRename[k].old) : k \in 1..Len(ToRename)}

\* C7: after a duplicate-renaming pass the root counter is greater than the
\* numeric suffix of every name in use that has an affected prefix, and it
\* is not below its value on entry.
C7_CounterAboveSuffixes ==
  (pc = "fx_prompts" /\ duplicates > 0) =>
    /\ Counter(doc) >= Counter(InputDoc)
    /\ \A i \in ElemIdx(doc) :
         (/\ HasName(doc[i])
          /\ Prefix(NameOf(doc[i])) \in AffectedPrefixes
          /\ Len(NameOf(doc[i])) > Len(Prefix(NameOf(doc[i])))
          /\ \A c \in Range(NameOf(doc[i])) : c \in Lower \cup Digit)
           => LET n == NameOf(doc[i]) IN
              DigitsVal(SubSeq(n, Len(Prefix(n)) + 1, Len(n)), 0) < Counter(doc)

\* the unused prompt repairs of the run
PromptPasses == {k \in 1..Len(passes) : passes[k].pass = "prompts"}

InputUnused ==
  IF pc = "rx_done" THEN Range(unusedPrompts(InputDoc))
  ELSE Range(fxUnusedPrompts(InputDoc))

\* C9: every element of the input that declares a name outside the unused
\* prompt set of the input is in the returned document and declares the
\* same name there.
C9_OtherDeclarationsKept ==
  (Done /\ InputDoc[1].tag # "parsererror") =>
    \A i \in ElemIdx(InputDoc) :
      (HasName(InputDoc[i]) /\ NameOf(InputDoc[i]) \notin InputUnused)
        => LET pos == PosOf(Returned, InputDoc[i].id) IN
           /\ pos # 0
           /\ HasName(Returned[pos])
           /\ NameOf(Returned[pos]) = NameOf(InputDoc[i])

\* analyzeXML finds no defect in the input
CleanInput ==
  /\ analyzeXML(InputDoc).nullCandidates = 0
  /\ analyzeXML(InputDoc).prompts = 0
  /\ analyzeXML(InputDoc).duplicates = 0

C11_PipelineIdempotent ==
  pc = "rx_done" =>
    LET again == analyzeXML(Returned) IN
    /\ again.nullCandidates = 0
    /\ again.duplicates = 0
    /\ again.prompts = 0

\* the engine returned a result
HasResult == DOMAIN result # {}

\* C12: the null candidate loop never makes more than 10 turns, and a run
\* of repairXML that entered the loop ends with a result and no error,
\* also when the loop stopped at the limit with candidates left.
C12_LoopTerminates ==
  /\ [](nullCandidateLoopCount <= LoopLimit)
  /\ (pc = "rx_loop") ~> (pc = "rx_done" /\ HasResult /\ thrown = "")

\* C12 happens: the loop stopped at its limit with a candidate left and
\* repairXML returned a result
C12_Witness ==
  /\ pc = "rx_done"
  /\ nullCandidateLoopCount = LoopLimit
  /\ nullCandidateIds(Parsed(repairedContent)) # <<>>
  /\ HasResult
  /\ thrown = ""

Analyzed == pc \in {"rx_loop", "rx_prompts", "rx_return", "rx_done"}

\* the identifier s must never be reported: six hexadecimal digits, fewer
\* than 3 characters, or a member of the exclusion list
Excluded(s) ==
  \/ Len(s) = 6 /\ \A k \in 1..Len(s) : s[k] \in HexChar
  \/ Len(s) < 3
  \/ s \in { <<"l","a","b","e","l">>, <<"t","i","t","l","e">>,
             <<"n","a","m","e">>, <<"i","d">>, <<"b","i","1">> }

\* C14: no 6-hex-digit string, no string shorter than 3 characters and no
\* member of the exclusion list is in a null candidate set that analyzeXML
\* computes, nor in the list of the report that repairXML returns.
C14_NeverFlagged ==
  /\ Analyzed =>
       /\ \A k \in 1..Len(analysis.nullCandidateIds) :
            ~Excluded(analysis.nullCandidateIds[k])
       /\ \A k \in 1..Len(nullCandidateIds(InputDoc)) :
            ~Excluded(nullCandidateIds(InputDoc)[k])
  /\ pc = "rx_done" =>
       \A k \in 1..Len(result.analysis.nullCandidateList) :
         ~Excluded(result.analysis.nullCandidateList[k])

\* C14 happens: the input refers to ab1234 and to bi1, neither is defined,
\* and repairXML has returned
C14_Witness ==
  /\ pc = "rx_done"
  /\ <<"a","b","1","2","3","4">> \in Range(referencedIds(InputDoc)) \ definedIds(InputDoc)
  /\ <<"b","i","1">> \in Range(referencedIds(InputDoc)) \ definedIds(InputDoc)
  /\ result.results.nullCandidates = 0

\* C15: a second application of repairNullCandidates, with the same
\* candidates, to the document the first application left changes
\* nothing, and so for repairUnusedPrompts.
C15_PassesIdempotent ==
  Analyzed =>
    LET ncs == nullCandidateIds(InputDoc) IN
    /\ NullRepaired(NullRepaired(InputDoc, ncs), ncs) = NullRepaired(InputDoc, ncs)
    /\ PromptRepaired(PromptRepaired(InputDoc)) = PromptRepaired(InputDoc)

PhaseNamed(message) ==
  IF message = "Invalid XML format" THEN "parse" ELSE "none"

\* C17: the Error that repairXML throws names the phase that failed, and
\* a run that failed returned nothing.
C17_FailureNamesPhase ==
  pc = "rx_failed" =>
    /\ PhaseNamed(thrown) # "none"
    /\ ~HasResult

\* two lowercase letters followed by one or more digits
TwoLettersDigits(w) ==
  /\ Len(w) >= 3
  /\ w[1] \in Lower
  /\ w[2] \in Lower
  /\ \A k \in 3..Len(w) : w[k] \in Digit

\* the tokens of v: the longest stretches without white space
Tokens(v) ==
  { SubSeq(v, x[1], x[2]) :
      x \in { y \in (1..Len(v)) \X (1..Len(v)) :
                /\ y[1] <= y[2]
                /\ \A k \in y[1]..y[2] : v[k] \notin White
                /\ (y[1] = 1 \/ v[y[1] - 1] \in White)
                /\ (y[2] = Len(v) \/ v[y[2] + 1] \in White) } }

abc123 == <<"a", "b", "c", "1", "2", "3">>

\* C18: for every element of the input the identifiers that analyzeXML
\* takes from its attributes are the tokens of its attributes other than
\* name that are two lowercase letters followed by digits; abc123 is never
\* a referenced identifier nor a null candidate.
C18_AttributeReferences ==
  Analyzed =>
    /\ \A i \in ElemIdx(InputDoc) :
         Range(AttrRefs(InputDoc[i].attrs)) =
           UNION { {w \in Tokens(InputDoc[i].attrs[k].value) : TwoLettersDigits(w)}
                   : k \in {j \in 1..Len(InputDoc[i].attrs) :
                              InputDoc[i].attrs[j].name # "name"} }
    /\ abc123 \notin Range(referencedIds(InputDoc))
    /\ abc123 \notin Range(analysis.nullCandidateIds)

\* C18 happens: an attribute of the input holds two identifiers between
\* white space, and the undefined one is a null candidate
C18_Witness ==
  /\ pc = "rx_loop"
  /\ nullCandidateLoopCount = 0
  /\ \E i \in ElemIdx(InputDoc) :
       AttrRefs(InputDoc[i].attrs) = <<xy99, ab1>>
  /\ analysis.nullCandidateIds = <<xy99>>

\* the text of the text nodes that are children of element i
DirectText(d, i) ==
  Flatten([j \in 1..(SubEnd(d, i) - i) |->
             IF d[i + j].kind = "text" /\ d[i + j].depth = d[i].depth + 1
             THEN d[i + j].text ELSE <<>>])

\* the identifiers that occur in t between characters that are absent or
\* neither alphanumeric nor '#'
BoundedIds(t) ==
  { w \in { SubSeq(t, i, j) : i \in 1..Len(t), j \in 1..Len(t) } :
      /\ TwoLettersDigits(w)
      /\ \E i \in 1..Len(t) :
           /\ StartsAt(t, i, w)
           /\ (i = 1 \/ t[i - 1] \notin AlnumHash)
           /\ (i + Len(w) > Len(t) \/ t[i + Len(w)] \notin AlnumHash) }

\* C19: the identifiers that analyzeXML takes from text are those that
\* occur, between such characters, in the direct text of some element.
C19_TextReferences ==
  Analyzed =>
    UNION { Range(TextRefs(InputDoc, i)) : i \in ElemIdx(InputDoc) } =
    UNION { BoundedIds(DirectText(InputDoc, i)) : i \in ElemIdx(InputDoc) }

\* the values repairNullCandidates cleans in the input: the attributes
\* other than name and the textContent of the elements
CleanedValues ==
  UNION { {InputDoc[i].attrs[k].value :
             k \in {j \in 1..Len(InputDoc[i].attrs) : InputDoc[i].attrs[j].name # "name"}}
          \cup {textContent(InputDoc, i)} : i \in ElemIdx(InputDoc) }

\* C20: in the values of the input, the pattern for a bare candidate
\* matches an occurrence of the candidate exactly when the characters
\* before and after it are absent or neither alphanumeric nor '#'; a value
\* in which the candidate is followed by '#' still holds it after
\* removeNullCandidateReferences.
C20_RemovalUsesDetectionBoundary ==
  Analyzed =>
    \A v \in CleanedValues : \A k \in 1..Len(nullCandidateIds(InputDoc)) :
      LET c == nullCandidateIds(InputDoc)[k] IN
      /\ \A p \in 1..Len(v) :
           StartsAt(v, p, c) =>
             ((Pattern2Len(v, p, c) > 0)
                <=> (BeforeOk(v, p, AlnumHash) /\ AfterOk(v, p + Len(c), AlnumHash)))
      /\ (Includes(v, c \o <<"#">>) /\ ~Includes(v, <<"$", "{">>))
           => Includes(removeNullCandidateReferences(v, <<c>>), c \o <<"#">>)

\* C21: after a turn of the null candidate repair no element has an
\* attribute other than name with an empty or white value, unless the
\* input gave that element the attribute with that value.
C21_EmptyAttributesRemoved ==
  (Analyzed /\ nullCandidateLoopCount > 0) =>
    \A i \in ElemIdx(doc) : \A k \in 1..Len(doc[i].attrs) :
      LET a == doc[i].attrs[k]
          j == PosOf(InputDoc, doc[i].id)
      IN  (a.name # "name" /\ Trim(a.value) = <<>>) =>
            /\ j # 0
            /\ HasAttr(InputDoc[j].attrs, a.name)
            /\ AttrVal(InputDoc[j].attrs, a.name) = a.value

\* C21 happens: the input is <Property value="xy99"/> in the root, xy99 is
\* not declared, and after the repair the element has no attribute
C21_Witness ==
  /\ pc = "rx_done"
  /\ nullCandidateLoopCount = 1
  /\ \E j \in ElemIdx(InputDoc) :
       /\ InputDoc[j].tag = "Property"
       /\ InputDoc[j].attrs = <<Attr("value", xy99)>>
       /\ PosOf(Returned, InputDoc[j].id) # 0
       /\ Returned[PosOf(Returned, InputDoc[j].id)].attrs = <<>>

\* the names that more than one element of d declares, but for the groups
\* whose elements all have one and the same allow-listed tag, and for the
\* names on the list of expected duplicates
ExpectedDuplicates(d) ==
  LET decl(n) == {i \in ElemIdx(d) : HasAttr(d[i].attrs, "name")
                                       /\ AttrVal(d[i].attrs, "name") = n}
      names   == {AttrVal(d[i].attrs, "name") :
                    i \in {j \in ElemIdx(d) : HasAttr(d[j].attrs, "name")}} \ {<<>>}
  IN  {n \in names :
         /\ Cardinality(decl(n)) > 1
         /\ ~\E t \in {"DynVar", "Category", "Property", "KeyValue", "HistogramParm"} :
               \A i \in decl(n) : d[i].tag = t
         /\ n \notin { <<"C","A","T","E","G","O","R","Y">>,
                       <<"R","E","S","P","O","N","S","E">>,
                       <<"G","R","O","U","P">>, <<"C","O","L","U","M","N">>,
                       <<"R","O","W">>, <<"T","I","P">>,
                       <<"K","E","Y","_","F","R","A","M","E">>,
                       <<"H","I","D","D","E","N">>, <<"X">>, <<"Y">> }}

\* C22: the duplicate names that the first analysis of repairXML finds and
\* counts are the names declared by more than one element, without the
\* groups of one allow-listed tag and the expected duplicate names.
C22_DuplicateGroups ==
  (pc = "rx_loop" /\ nullCandidateLoopCount = 0) =>
    /\ findDuplicateObjects(InputDoc) = ExpectedDuplicates(InputDoc)
    /\ analysis.duplicates = Cardinality(ExpectedDuplicates(InputDoc))

\* C22 happens: vi1 is declared by a Property and an A, vi5 by two Property
\* elements and X by two A elements; vi1 alone is counted
C22_Witness ==
  /\ pc = "rx_loop"
  /\ nullCandidateLoopCount = 0
  /\ \E i, j \in ElemIdx(InputDoc) :
       /\ InputDoc[i].tag = "Property" /\ InputDoc[j].tag = "A"
       /\ HasName(InputDoc[i]) /\ NameOf(InputDoc[i]) = vi1
       /\ HasName(InputDoc[j]) /\ NameOf(InputDoc[j]) = vi1
  /\ Cardinality({i \in ElemIdx(InputDoc) :
                    InputDoc[i].tag = "Property" /\ HasName(InputDoc[i])
                      /\ NameOf(InputDoc[i]) = vi5}) = 2
  /\ Cardinality(Declaring(InputDoc, <<"X">>)) = 2
  /\ findDuplicateObjects(InputDoc) = {vi1}
  /\ analysis.duplicates = 1

\* the text of all text nodes inside element i of d, in document order
TextInside(d, i) ==
  LET ts == SelectSeq([j \in 1..(SubEnd(d, i) - i) |-> d[i + j]],
                      LAMBDA n : n.kind = "text")
  IN  Flatten([k \in 1..Len(ts) |-> ts[k].text])

\* the declared names  pr<digits>  of d that are the value of no attribute
\* other than name and occur in the text content of no element
ExpectedUnused(d) ==
  { n \in { AttrVal(d[i].attrs, "name") :
              i \in {j \in ElemIdx(d) : HasAttr(d[j].attrs, "name")} } :
      /\ Len(n) >= 3 /\ n[1] = "p" /\ n[2] = "r"
      /\ \A k \in 3..Len(n) : n[k] \in Digit
      /\ ~\E i \in ElemIdx(d) : \E k \in 1..Len(d[i].attrs) :
            d[i].attrs[k].name # "name" /\ d[i].attrs[k].value = n
      /\ ~\E i \in ElemIdx(d) : \E q \in 1..Len(TextInside(d, i)) :
            StartsAt(TextInside(d, i), q, n) }

\* C23: the unused prompts that the first analysis of repairXML finds and
\* counts are the declared names  pr<digits>  that are the value of no
\* attribute other than name and a substring of no element's text content.
C23_UnusedPromptDetection ==
  (pc = "rx_loop" /\ nullCandidateLoopCount = 0) =>
    /\ Range(unusedPrompts(InputDoc)) = ExpectedUnused(InputDoc)
    /\ analysis.prompts = Cardinality(ExpectedUnused(InputDoc))

\* C23 happens: pr1 is declared, no attribute has it as its value, a text
\* holds it inside xpr10, and it is not counted as unused
C23_Witness ==
  /\ pc = "rx_loop"
  /\ nullCandidateLoopCount = 0
  /\ Declaring(InputDoc, pr1) # {}
  /\ \E i \in ElemIdx(InputDoc) :
       TextInside(InputDoc, i) = <<"x", "p", "r", "1", "0">>
  /\ analysis.prompts = 0

\* C24: duplicate repair leaves the value of an attribute other than name
\* as it was unless the whole value was the name of a duplicate group.
C24_WholeValueRewrite ==
  pc = "fx_prompts" =>
    \A i \in DescIdx(doc) : \A k \in 1..Len(doc[i].attrs) :
      LET a == doc[i].attrs[k]
          j == PosOf(InputDoc, doc[i].id)
      IN  (/\ a.name # "name"
           /\ j # 0
           /\ HasAttr(InputDoc[j].attrs, a.name)
           /\ AttrVal(InputDoc[j].attrs, a.name) \notin Range(idDups(InputDoc)))
            => a.value = AttrVal(InputDoc[j].attrs, a.name)

\* C27: the null candidates that analyzeXML finds after repairUnusedPrompts
\* were null candidates before it.
C27_PromptRepairKeepsReferences ==
  Analyzed =>
    Range(nullCandidateIds(PromptRepaired(InputDoc)))
      \subseteq Range(nullCandidateIds(InputDoc))

\* C28: after one call of repairNullCandidates no attribute other than
\* name holds a candidate between characters that are absent or neither
\* alphanumeric nor '#'.
C28_EveryAttributeCleaned ==
  Analyzed =>
    LET ncs == nullCandidateIds(InputDoc)
        d   == NullRepaired(InputDoc, ncs)
    IN  \A i \in ElemIdx(d) : \A k \in 1..Len(d[i].attrs) :
          d[i].attrs[k].name # "name" =>
            \A c \in Range(ncs) : \A q \in 1..Len(d[i].attrs[k].value) :
              ~(/\ StartsAt(d[i].attrs[k].value, q, c)
                /\ BeforeOk(d[i].attrs[k].value, q, AlnumHash)
                /\ AfterOk(d[i].attrs[k].value, q + Len(c), AlnumHash))

\* the tags whose elements the line of target type t counts
CountedTags(t) ==
  IF t = "DataDefinition" THEN {"DataDefinition", "DataDefinitions"}
  ELSE IF t = "DataSource" THEN {"DataSource", "DataSources"}
  ELSE {t}

\* the elements that a table of counts by tag holds under the tags of T
RECURSIVE CountedIn(_, _)
CountedIn(types, T) ==
  IF T = {} THEN 0
  ELSE LET t == CHOOSE x \in T : TRUE
       IN  (IF t \in DOMAIN types THEN types[t] ELSE 0)
             + CountedIn(types, T \ {t})

\* C25: the report has exactly one count line for each of the 14 fixed tag
\* names, in their order; a tag without elements shows 0, the
\* DataDefinition line counts DataDefinition and DataDefinitions elements,
\* the DataSource line counts DataSource and DataSources elements, and no
\* other tag has a line.
C25_ReportCountLines ==
  (pc = "rx_done" /\ HasResult) =>
    LET lines == result.analysis.objectCounts IN
      /\ Cardinality(Range(targetTypes)) = 14
      /\ Len(lines) = 14
      /\ \A k \in 1..14 :
           /\ lines[k][1] = targetTypes[k]
           /\ lines[k][2] = CountedIn(analysis.objectTypes,
                                      CountedTags(targetTypes[k]))
           /\ analysis.prompts = 0 =>
                lines[k][2] =
                  Cardinality({i \in ElemIdx(doc) :
                                 doc[i].tag \in CountedTags(targetTypes[k])})

\* a report of a document with elements of both tags of each summed pair,
\* of a listed tag, of an unlisted tag, and none of the other listed tags
C25_Witness ==
  /\ pc = "rx_done" /\ HasResult
  /\ analysis.prompts = 0
  /\ {"DataDefinition", "DataDefinitions", "DataSource", "DataSources",
      "Image", "Other"} \subseteq DOMAIN analysis.objectTypes
  /\ "Section" \notin DOMAIN analysis.objectTypes
  /\ result.analysis.objectCounts[2] = <<"DataDefinition", 3>>
  /\ result.analysis.objectCounts[3] = <<"DataSource", 2>>
  /\ result.analysis.objectCounts[11] = <<"Section", 0>>

\* a request between its arrival and its return
InFlight(r) == requests[r].pc \notin {"idle", "returned"}

\* C26: two requests that are in flight at the same time and have computed
\* their temporary paths never have the same temporary input path, so that
\* none writes, reads or deletes the input file of the other.
C26_RequestIsolation ==
  \A r, s \in 1..MaxRequests :
    (/\ r # s
     /\ InFlight(r) /\ InFlight(s)
     /\ requests[r].tempInputPath # <<>>
     /\ requests[s].tempInputPath # <<>>)
      => requests[r].tempInputPath # requests[s].tempInputPath

\* C29: when the completed state is shown, with repairedFile and
\* repairResults set, they were computed from the file that is selected.
C29_ResultsOfSelectedFile ==
  (/\ upload.isCompleted
   /\ upload.repairedFile # <<>>
   /\ upload.repairResults # "null")
    => upload.repairedFile = upload.file.name

\* C30: once a request that computed its temporary paths has returned,
\* its temporary input file does not exist and the step that deletes the
\* *_repaired.xml files has run.
C30_CleanupComplete ==
  \A r \in 1..MaxRequests :
    (requests[r].pc = "returned" /\ requests[r].tempInputPath # <<>>)
      => /\ requests[r].tempInputPath \notin DOMAIN files
         /\ requests[r].repairedCleaned

====
